---- MODULE Spec2Model ----
(***************************************************************************)
(* Two-State Thermodynamic Calculator (ThermoStateCalc_TwoStates_app.py).  *)
(*                                                                         *)
(* The form main_window is modelled as a state machine: the widgets the    *)
(* handlers read and write are the variables, and every user gesture that  *)
(* reaches a handler (radio click, combo selection, Calculate click) or    *)
(* changes a widget (typing in a line edit) is an action.                  *)
(*                                                                         *)
(* Numbers.  A Python float is modelled as a record [k, v]: k = "num" and  *)
(* v an integer number of ticks (1 tick = 1/Scale), or k one of "inf",     *)
(* "-inf", "nan" (v = 0).  The text of a line edit is the same record,     *)
(* with the extra kind "abc" for text float() cannot parse.  "{:0.3f}"     *)
(* keeps three decimals, i.e. rounds to a multiple of Scale/1000 ticks.    *)
(***************************************************************************)
EXTENDS Integers, Sequences, FiniteSets, TLC

VARIABLES
    rdoSI,          \* _rdo_SI.isChecked()  (the radio pair is exclusive)
    currentUnits,   \* self.currentUnits
    steamTable,     \* self.steamTable unit system
    units,          \* self.p_Units .. self.v_Units
    cmb,            \* currentText of the four property selectors
    le,             \* text of the four value fields
    lblUnits,       \* text of the four input unit labels
    state1,         \* self.state1
    state2,         \* self.state2
    lbl1,           \* _lbl_State1_Properties
    lbl2,           \* _lbl_State2_Properties
    lblDelta,       \* _lbl_StateChange_Properties
    warning,        \* _lbl_Warning
    last,           \* the handler that ran last and how it ended
    calls,          \* the setState calls made by the last Calculate click
    clicks,         \* number of Calculate clicks so far
    steps           \* number of user gestures so far

vars == <<rdoSI, currentUnits, steamTable, units, cmb, le, lblUnits, state1,
          state2, lbl1, lbl2, lblDelta, warning, last, calls, clicks, steps>>

\* ---------------------------------------------------------------- bounds
MaxSteps == 3

\* Ticks per unit: four decimals, one more than the form displays.
Scale == 10 * 1000

\* ------------------------------------------------------------ the widgets
\* Fields 1,2 belong to State 1, fields 3,4 to State 2.
Fields == 1..4

PropertyItems ==
    {"Pressure (p)", "Temperature (T)", "Energy (u)", "Enthalpy (h)",
     "Entropy (s)", "Volume (v)", "Quality (x)"}

\* currentText()[-2:-1].lower(): the letter before the closing parenthesis.
PropLetter(text) ==
    CASE text = "Pressure (p)"    -> "p"
      [] text = "Temperature (T)" -> "t"
      [] text = "Energy (u)"      -> "u"
      [] text = "Enthalpy (h)"    -> "h"
      [] text = "Entropy (s)"     -> "s"
      [] text = "Volume (v)"      -> "v"
      [] text = "Quality (x)"     -> "x"

\* ---------------------------------------------------------------- floats
Num(n) == [k |-> "num", v |-> n]
Inf == [k |-> "inf", v |-> 0]
NaN == [k |-> "nan", v |-> 0]
Abc == [k |-> "abc", v |-> 0]

IsFinite(f) == f.k = "num"

\* float(text): raises ValueError exactly on text that is not a number;
\* "inf", "-inf" and "nan" parse.
FloatRaises(text) == text.k = "abc"

\* Nearest integer to n/d (d > 0), ties to even.
RoundDiv(n, d) ==
    LET q == n \div d
        r == n % d
    IN  IF 2 * r < d THEN q
        ELSE IF 2 * r > d THEN q + 1
        ELSE IF q % 2 = 0 THEN q ELSE q + 1

\* Ticks in 0.001, the last digit "{:0.3f}" keeps.
Tick3 == Scale \div 1000

\* Nearest integer to m*n/d (n, d > 0), without forming the product m*n.
MulRoundDiv(m, n, d) == (m \div d) * n + RoundDiv((m % d) * n, d)

\* "{:0.3f}".format(m*n/d) for a value of m*n/d ticks, read back as ticks.
Fmt3Rat(m, n, d) == Tick3 * MulRoundDiv(m, n, d * Tick3)

\* "{:0.3f}".format(x) for a value of x ticks, read back as ticks.
Fmt3(x) == Fmt3Rat(x, 1, 1)

\* A float that is m*n/d ticks (n, d > 0) or non-finite: the exact value of
\* an arithmetic expression before it is formatted.
Rat(m, n, d) == [k |-> "num", m |-> m, n |-> n, d |-> d]
NonFinite(kind) == [k |-> kind, m |-> 0, n |-> 1, d |-> 1]
AsRat(f) == IF f.k = "num" THEN Rat(f.v, 1, 1) ELSE NonFinite(f.k)

\* "{:0.3f}".format(r) as the text it produces ("inf", "-inf", "nan" for
\* the non-finite values).
Fmt3Val(r) ==
    IF r.k = "num" THEN Num(Fmt3Rat(r.m, r.n, r.d)) ELSE [k |-> r.k, v |-> 0]

\* --------------------------------------------------- UC, the unit converter
\* val * factor, the factor given as <<numerator, denominator>>:
\* 14.504 psi/bar, 2.326 (kJ/kg)/(btu/lb), 4.1868 (kJ/kg C)/(btu/lb F),
\* 16.0185 (ft^3/lb)/(m^3/kg); each reverse factor is the exact inverse.
Times(f, c) == IF f.k = "num" THEN Rat(f.v, c[1], c[2]) ELSE NonFinite(f.k)

bar_to_psi == <<1813, 125>>
psi_to_bar == <<bar_to_psi[2], bar_to_psi[1]>>
btuperlb_to_kJperkg == <<1163, 500>>
kJperkg_to_btuperlb == <<btuperlb_to_kJperkg[2], btuperlb_to_kJperkg[1]>>
btuperlbF_to_kJperkgC == <<10467, 2500>>
kJperkgc_to_btuperlbF == <<btuperlbF_to_kJperkgC[2], btuperlbF_to_kJperkgC[1]>>
m3perkg_to_ft3perlb == <<32037, 2000>>
ft3perlb_to_m3perkg == <<m3perkg_to_ft3perlb[2], m3perkg_to_ft3perlb[1]>>

\* F = C*9/5 + 32 and its inverse.
C_to_F(f) == IF f.k = "num" THEN Rat(9 * f.v + 160 * Scale, 1, 5) ELSE NonFinite(f.k)
F_to_C(f) == IF f.k = "num" THEN Rat(f.v - 32 * Scale, 5, 9) ELSE NonFinite(f.k)

\* ---------------------------------------------------------------- setUnits
SIUnits == [p |-> "bar", t |-> "C", u |-> "kJ/kg", h |-> "kJ/kg",
            s |-> "kJ/kg*C", v |-> "m^3/kg"]
ENUnits == [p |-> "psi", t |-> "F", u |-> "btu/lb", h |-> "btu/lb",
            s |-> "btu/lb*F", v |-> "ft^3/lb"]

\* 'word' in prop, for the words updatePropertyUnits looks for.
Contains(prop, word) ==
    \/ word = "Pressure" /\ prop = "Pressure (p)"
    \/ word = "Temperature" /\ prop = "Temperature (T)"
    \/ word = "Energy" /\ prop = "Energy (u)"
    \/ word = "Enthalpy" /\ prop = "Enthalpy (h)"
    \/ word = "Entropy" /\ prop = "Entropy (s)"
    \/ word = "Volume" /\ prop = "Volume (v)"
    \/ word = "Quality" /\ prop = "Quality (x)"

\* The value updatePropertyUnits parses from the field: 0.0 when float() raises.
ParsedOrZero(text) == IF FloatRaises(text) THEN Num(0) ELSE text

\* The value after the branch on the property, before it is formatted.
ConvertedVal(prop, val, UnitChange, SI) ==
    IF Contains(prop, "Pressure") THEN
        IF UnitChange
        THEN (IF SI THEN Times(val, psi_to_bar) ELSE Times(val, bar_to_psi))
        ELSE AsRat(val)
    ELSE IF Contains(prop, "Temperature") THEN
        IF UnitChange
        THEN (IF SI THEN F_to_C(val) ELSE C_to_F(val))
        ELSE AsRat(val)
    ELSE IF Contains(prop, "Energy") THEN
        IF UnitChange
        THEN (IF SI THEN Times(val, btuperlb_to_kJperkg) ELSE Times(val, kJperkg_to_btuperlb))
        ELSE AsRat(val)
    ELSE IF Contains(prop, "Enthalpy") THEN
        IF UnitChange
        THEN (IF SI THEN Times(val, btuperlb_to_kJperkg) ELSE Times(val, kJperkg_to_btuperlb))
        ELSE AsRat(val)
    ELSE IF Contains(prop, "Entropy") THEN
        IF UnitChange
        THEN (IF SI THEN Times(val, btuperlbF_to_kJperkgC) ELSE Times(val, kJperkgc_to_btuperlbF))
        ELSE AsRat(val)
    ELSE IF Contains(prop, "Volume") THEN
        IF UnitChange
        THEN (IF SI THEN Times(val, ft3perlb_to_m3perkg) ELSE Times(val, m3perkg_to_ft3perlb))
        ELSE AsRat(val)
    ELSE AsRat(val)

\* The unit label updatePropertyUnits sets; a property that matches no
\* branch leaves the label as it was.
UnitLabelFor(prop, u, old) ==
    IF Contains(prop, "Pressure") THEN u.p
    ELSE IF Contains(prop, "Temperature") THEN u.t
    ELSE IF Contains(prop, "Energy") THEN u.u
    ELSE IF Contains(prop, "Enthalpy") THEN u.h
    ELSE IF Contains(prop, "Entropy") THEN u.s
    ELSE IF Contains(prop, "Volume") THEN u.v
    ELSE IF Contains(prop, "Quality") THEN ""
    ELSE old

\* updatePropertyUnits: the new text of the line edit.
updatePropertyUnits(prop, text, UnitChange, SI) ==
    Fmt3Val(ConvertedVal(prop, ParsedOrZero(text), UnitChange, SI))

UnitsOf(SI) == IF SI THEN SIUnits ELSE ENUnits

\* setUnits without the test on currentUnits: every call converts.
setUnits_alwaysConverts(SI, c, l) ==
    LET newUnits == IF SI THEN "SI" ELSE "EN"
    IN  /\ currentUnits' = newUnits
        /\ steamTable' = (IF SI THEN "MKS" ELSE "FLS")
        /\ units' = UnitsOf(SI)
        /\ le' = [i \in Fields |-> updatePropertyUnits(c[i], l[i], TRUE, SI)]
        /\ lblUnits' = [i \in Fields |-> UnitLabelFor(c[i], UnitsOf(SI), lblUnits[i])]

\* setUnits, run with the radio buttons showing SI (or not), the selectors
\* showing c and the fields holding l.
setUnits(SI, c, l) ==
    LET newUnits == IF SI THEN "SI" ELSE "EN"
        UnitChange == currentUnits # newUnits
    IN  /\ currentUnits' = newUnits
        /\ steamTable' = (IF SI THEN "MKS" ELSE "FLS")
        /\ units' = UnitsOf(SI)
        /\ le' = [i \in Fields |-> updatePropertyUnits(c[i], l[i], UnitChange, SI)]
        /\ lblUnits' = [i \in Fields |-> UnitLabelFor(c[i], UnitsOf(SI), lblUnits[i])]

\* ------------------------------------------------------------- thermoState
StateFields == {"p", "t", "u", "h", "s", "v", "x"}

\* self.state1 / self.state2 before the first Calculate click.
NoState == [status |-> "absent", region |-> "", f |-> [q \in StateFields |-> 0]]

\* thermoState(): a new, unresolved state.
FreshState == [status |-> "fresh", region |-> "", f |-> [q \in StateFields |-> 0]]

ValueOf(q, a, b, fa, fb) == IF q = a THEN fa.v ELSE fb.v

\* The pairs the dispatch resolves: pressure or temperature with anything.
SupportedPair(a, b) == a \in {"p", "t"} \/ b \in {"p", "t"}

\* Inputs outside the phase diagram.
OutOfRange(a, b, fa, fb) ==
    \/ ~IsFinite(fa) \/ ~IsFinite(fb)
    \/ "p" \in {a, b} /\ ValueOf("p", a, b, fa, fb) <= 0
    \/ "x" \in {a, b} /\ ValueOf("x", a, b, fa, fb) \notin 0..Scale

\* The error setState raises on these inputs, "" when it resolves them.
setStateError(a, b, fa, fb, SI) ==
    IF ~SupportedPair(a, b) THEN "UnsupportedPropertyPairError"
    ELSE IF OutOfRange(a, b, fa, fb) THEN "PropertyResolutionError"
    ELSE ""

FieldWeight(q) ==
    CASE q = "p" -> 1 [] q = "t" -> 2 [] q = "u" -> 3 [] q = "h" -> 4
      [] q = "s" -> 5 [] q = "v" -> 6 [] q = "x" -> 7

\* The resolved state.  The property backend is a black box; it is
\* modelled as one fixed function of (a, b, fa, fb, SI): the anchor is the
\* pressure or temperature of the pair, the other property is compared
\* with its saturated-liquid and saturated-vapor values at the anchor.
setState(a, b, fa, fb, SI) ==
    LET anchor == IF a \in {"p", "t"} THEN a ELSE b
        other  == IF anchor = a THEN b ELSE a
        av     == ValueOf(anchor, a, b, fa, fb)
        ov     == ValueOf(other, a, b, fa, fb)
        satL   == av
        satV   == av + Scale
        x      == IF other = "x" THEN ov
                  ELSE IF ov < satL \/ ov > satV THEN 0 - Scale
                  ELSE ov - satL
        region == IF x \in {0, Scale} THEN "saturated"
                  ELSE IF x \in 0..Scale THEN "two-phase"
                  ELSE IF ov < satL THEN "sub-cooled liquid"
                  ELSE "super-heated vapor"
        base   == IF SI THEN 0 ELSE Tick3
    IN  [status |-> "resolved",
         region |-> region,
         f |-> [q \in StateFields |->
                  IF q = a THEN fa.v
                  ELSE IF q = b THEN fb.v
                  ELSE IF q = "x" THEN x
                  ELSE FieldWeight(q) * av + ov + base]]

\* ------------------------------------------------------------ the labels
BlankLabel == [shown |-> FALSE, color |-> "", region |-> "",
               f |-> [q \in StateFields |-> 0], units |-> SIUnits]

region_colors(region) ==
    CASE region = "two-phase" -> "blue"
      [] region = "super-heated vapor" -> "green"
      [] region = "sub-cooled liquid" -> "red"
      [] region = "saturated" -> "black"
      [] OTHER -> "black"

\* makeLabel: the region in its colour, then each property to three
\* decimals with self.*_Units.
makeLabel(state) ==
    [shown |-> TRUE, color |-> region_colors(state.region), region |-> state.region,
     f |-> [q \in StateFields |-> Fmt3(state.f[q])], units |-> units]

\* makeDeltaLabel with the operands exchanged: state1 - state2.
makeDeltaLabel_swapped(s1, s2) ==
    [shown |-> TRUE, color |-> "", region |-> "",
     f |-> [q \in StateFields |-> Fmt3(s1.f[q] - s2.f[q])], units |-> units]

\* makeDeltaLabel: state2 - state1 for each property, to three decimals.
makeDeltaLabel(s1, s2) ==
    [shown |-> TRUE, color |-> "", region |-> "",
     f |-> [q \in StateFields |-> Fmt3(s2.f[q] - s1.f[q])], units |-> units]

\* ------------------------------------------------------ calculateProperties
WarnDup1 == "Warning: You cannot specify the same property twice for State 1."
WarnDup2 == "Warning: You cannot specify the same property twice for State 2."
WarnValue == "Error: Please enter valid numerical values."
WarnUnexpected(e) ==
    IF e = "UnsupportedPropertyPairError"
    THEN "Unexpected error: UnsupportedPropertyPairError"
    ELSE "Unexpected error: PropertyResolutionError"

\* calculateProperties with the State 2 values parsed only after State 1
\* has been set.
calculateProperties_parseLate ==
    LET SP1 == <<PropLetter(cmb[1]), PropLetter(cmb[2])>>
        SP2 == <<PropLetter(cmb[3]), PropLetter(cmb[4])>>
        SI  == rdoSI
        e1  == setStateError(SP1[1], SP1[2], le[1], le[2], SI)
        e2  == setStateError(SP2[1], SP2[2], le[3], le[4], SI)
        s1  == setState(SP1[1], SP1[2], le[1], le[2], SI)
        s2  == setState(SP2[1], SP2[2], le[3], le[4], SI)
    IN  IF SP1[1] = SP1[2] THEN
            /\ warning' = WarnDup1
            /\ calls' = {}
            /\ UNCHANGED <<state1, state2, lbl1, lbl2, lblDelta>>
        ELSE IF FloatRaises(le[1]) \/ FloatRaises(le[2]) THEN
            /\ warning' = WarnValue
            /\ calls' = {}
            /\ UNCHANGED <<state1, state2, lbl1, lbl2, lblDelta>>
        ELSE IF SP2[1] = SP2[2] THEN
            /\ warning' = WarnDup2
            /\ calls' = {}
            /\ UNCHANGED <<state1, state2, lbl1, lbl2, lblDelta>>
        ELSE IF e1 # "" THEN
            /\ state1' = FreshState
            /\ calls' = {1}
            /\ warning' = WarnUnexpected(e1)
            /\ UNCHANGED <<state2, lbl1, lbl2, lblDelta>>
        ELSE IF FloatRaises(le[3]) \/ FloatRaises(le[4]) THEN
            /\ state1' = s1
            /\ calls' = {1}
            /\ warning' = WarnValue
            /\ UNCHANGED <<state2, lbl1, lbl2, lblDelta>>
        ELSE IF e2 # "" THEN
            /\ state1' = s1
            /\ state2' = FreshState
            /\ calls' = {1, 2}
            /\ warning' = WarnUnexpected(e2)
            /\ UNCHANGED <<lbl1, lbl2, lblDelta>>
        ELSE
            /\ state1' = s1
            /\ state2' = s2
            /\ calls' = {1, 2}
            /\ lbl1' = makeLabel(s1)
            /\ lbl2' = makeLabel(s2)
            /\ lblDelta' = makeDeltaLabel(s1, s2)
            /\ warning' = ""

\* calculateProperties keeping a state it has already resolved instead of
\* constructing a new thermoState.
calculateProperties_cached ==
    LET SP1 == <<PropLetter(cmb[1]), PropLetter(cmb[2])>>
        SP2 == <<PropLetter(cmb[3]), PropLetter(cmb[4])>>
        SI  == rdoSI
        e1  == setStateError(SP1[1], SP1[2], le[1], le[2], SI)
        e2  == setStateError(SP2[1], SP2[2], le[3], le[4], SI)
        s1  == IF state1.status = "resolved" THEN state1
               ELSE setState(SP1[1], SP1[2], le[1], le[2], SI)
        s2  == IF state2.status = "resolved" THEN state2
               ELSE setState(SP2[1], SP2[2], le[3], le[4], SI)
    IN  IF SP1[1] = SP1[2] THEN
            /\ warning' = WarnDup1
            /\ calls' = {}
            /\ UNCHANGED <<state1, state2, lbl1, lbl2, lblDelta>>
        ELSE IF FloatRaises(le[1]) \/ FloatRaises(le[2]) THEN
            /\ warning' = WarnValue
            /\ calls' = {}
            /\ UNCHANGED <<state1, state2, lbl1, lbl2, lblDelta>>
        ELSE IF SP2[1] = SP2[2] THEN
            /\ warning' = WarnDup2
            /\ calls' = {}
            /\ UNCHANGED <<state1, state2, lbl1, lbl2, lblDelta>>
        ELSE IF FloatRaises(le[3]) \/ FloatRaises(le[4]) THEN
            /\ warning' = WarnValue
            /\ calls' = {}
            /\ UNCHANGED <<state1, state2, lbl1, lbl2, lblDelta>>
        ELSE IF e1 # "" THEN
            /\ state1' = FreshState
            /\ calls' = {1}
            /\ warning' = WarnUnexpected(e1)
            /\ UNCHANGED <<state2, lbl1, lbl2, lblDelta>>
        ELSE IF e2 # "" THEN
            /\ state1' = s1
            /\ state2' = FreshState
            /\ calls' = {1, 2}
            /\ warning' = WarnUnexpected(e2)
            /\ UNCHANGED <<lbl1, lbl2, lblDelta>>
        ELSE
            /\ state1' = s1
            /\ state2' = s2
            /\ calls' = {1, 2}
            /\ lbl1' = makeLabel(s1)
            /\ lbl2' = makeLabel(s2)
            /\ lblDelta' = makeDeltaLabel(s1, s2)
            /\ warning' = ""

\* The Calculate click, from the first statement of the try block to the
\* return or the except clause that ends it.
calculateProperties ==
    LET SP1 == <<PropLetter(cmb[1]), PropLetter(cmb[2])>>
        SP2 == <<PropLetter(cmb[3]), PropLetter(cmb[4])>>
        SI  == rdoSI
        e1  == setStateError(SP1[1], SP1[2], le[1], le[2], SI)
        e2  == setStateError(SP2[1], SP2[2], le[3], le[4], SI)
        s1  == setState(SP1[1], SP1[2], le[1], le[2], SI)
        s2  == setState(SP2[1], SP2[2], le[3], le[4], SI)
    IN  IF SP1[1] = SP1[2] THEN
            /\ warning' = WarnDup1
            /\ calls' = {}
            /\ UNCHANGED <<state1, state2, lbl1, lbl2, lblDelta>>
        ELSE IF FloatRaises(le[1]) \/ FloatRaises(le[2]) THEN
            /\ warning' = WarnValue
            /\ calls' = {}
            /\ UNCHANGED <<state1, state2, lbl1, lbl2, lblDelta>>
        ELSE IF SP2[1] = SP2[2] THEN
            /\ warning' = WarnDup2
            /\ calls' = {}
            /\ UNCHANGED <<state1, state2, lbl1, lbl2, lblDelta>>
        ELSE IF FloatRaises(le[3]) \/ FloatRaises(le[4]) THEN
            /\ warning' = WarnValue
            /\ calls' = {}
            /\ UNCHANGED <<state1, state2, lbl1, lbl2, lblDelta>>
        ELSE IF e1 # "" THEN
            /\ state1' = FreshState
            /\ calls' = {1}
            /\ warning' = WarnUnexpected(e1)
            /\ UNCHANGED <<state2, lbl1, lbl2, lblDelta>>
        ELSE IF e2 # "" THEN
            /\ state1' = s1
            /\ state2' = FreshState
            /\ calls' = {1, 2}
            /\ warning' = WarnUnexpected(e2)
            /\ UNCHANGED <<lbl1, lbl2, lblDelta>>
        ELSE
            /\ state1' = s1
            /\ state2' = s2
            /\ calls' = {1, 2}
            /\ lbl1' = makeLabel(s1)
            /\ lbl2' = makeLabel(s2)
            /\ lblDelta' = makeDeltaLabel(s1, s2)
            /\ warning' = ""

\* ---------------------------------------------------------- the form at start
\* What the designer file puts in the widgets before __init__ runs setUnits.
DesignerItems == <<"Pressure (p)", "Temperature (T)", "Pressure (p)", "Temperature (T)">>
DesignerTexts == {Abc, Num(Scale)}

\* __init__: setupUi, currentUnits = 'SI', setUnits().
Init ==
    \E t1 \in DesignerTexts, t2 \in DesignerTexts :
      LET l0 == <<t1, t1, t2, t2>> IN
        /\ rdoSI = TRUE
        /\ currentUnits = "SI"
        /\ steamTable = "MKS"
        /\ units = SIUnits
        /\ cmb = DesignerItems
        /\ le = [i \in Fields |-> updatePropertyUnits(DesignerItems[i], l0[i], FALSE, TRUE)]
        /\ lblUnits = [i \in Fields |-> UnitLabelFor(DesignerItems[i], SIUnits, "")]
        /\ state1 = NoState
        /\ state2 = NoState
        /\ lbl1 = BlankLabel
        /\ lbl2 = BlankLabel
        /\ lblDelta = BlankLabel
        /\ warning = ""
        /\ last = "init"
        /\ calls = {}
        /\ clicks = 0
        /\ steps = 0

\* ------------------------------------------------------------ the gestures
\* What the user types into a value field.
UserTexts == {Abc, Inf, NaN, Num(Scale), Num(Scale + 2346)}

\* The user replaces the text of value field i; no handler is connected.
TypeText(i, text) ==
    /\ steps < MaxSteps
    /\ text # le[i]
    /\ le' = [le EXCEPT ![i] = text]
    /\ last' = "type"
    /\ steps' = steps + 1
    /\ UNCHANGED <<rdoSI, currentUnits, steamTable, units, cmb, lblUnits, state1,
                   state2, lbl1, lbl2, lblDelta, warning, calls, clicks>>

\* A click on _rdo_SI (si) or _rdo_English (~si): the button becomes the
\* checked one and clicked runs setUnits.
ClickRadio(si) ==
    /\ steps < MaxSteps
    /\ rdoSI' = si
    /\ setUnits(si, cmb, le)
    /\ last' = "radio"
    /\ steps' = steps + 1
    /\ UNCHANGED <<cmb, state1, state2, lbl1, lbl2, lblDelta, warning, calls, clicks>>

\* The user picks another item in selector i: currentIndexChanged runs setUnits.
SelectProperty(i, item) ==
    /\ steps < MaxSteps
    /\ item # cmb[i]
    /\ cmb' = [cmb EXCEPT ![i] = item]
    /\ setUnits(rdoSI, cmb', le)
    /\ last' = "select"
    /\ steps' = steps + 1
    /\ UNCHANGED <<rdoSI, state1, state2, lbl1, lbl2, lblDelta, warning, calls, clicks>>

\* A click on _pb_Calculate.
Calculate ==
    /\ steps < MaxSteps
    /\ calculateProperties
    /\ last' = "calc"
    /\ clicks' = clicks + 1
    /\ steps' = steps + 1
    /\ UNCHANGED <<rdoSI, currentUnits, steamTable, units, cmb, le, lblUnits>>

Next ==
    \/ \E i \in Fields, text \in UserTexts : TypeText(i, text)
    \/ \E si \in BOOLEAN : ClickRadio(si)
    \/ \E i \in Fields, item \in PropertyItems : SelectProperty(i, item)
    \/ Calculate

Spec == Init /\ [][Next]_vars

TypeOK ==
    /\ rdoSI \in BOOLEAN
    /\ currentUnits \in {"SI", "EN"}
    /\ \A i \in Fields : cmb[i] \in PropertyItems
    /\ calls \in SUBSET {1, 2}
    /\ clicks \in 0..steps
    /\ steps \in 0..MaxSteps

\* ================================================================ claims
AfterCalc == last = "calc"
Succeeded == AfterCalc /\ warning = ""
Dup1 == PropLetter(cmb[1]) = PropLetter(cmb[2])
Dup2 == PropLetter(cmb[3]) = PropLetter(cmb[4])
SomeNotNumeric == \E i \in Fields : FloatRaises(le[i])
SomeNotFinite == \E i \in Fields : le[i].k \in {"inf", "-inf", "nan"}

\* C1: whenever the two selectors of a state show the same property, the
\* Calculate click ends with the duplicate-property warning naming that
\* state, whatever the other inputs, and setState is called on no state.
C1_DuplicateAlwaysNamed ==
    AfterCalc =>
        /\ Dup1 => (warning = WarnDup1 /\ calls = {})
        /\ Dup2 => (warning = WarnDup2 /\ calls = {})

\* C2: when State 1 fails in a Calculate click, the resolution of State 2
\* is still attempted: with State 2's own inputs distinct and numeric,
\* setState is called for State 2.
C2_State2StillAttempted ==
    (/\ AfterCalc
     /\ warning # ""
     /\ ~Dup2
     /\ ~FloatRaises(le[3]) /\ ~FloatRaises(le[4]))
        => 2 \in calls

\* C3: a Calculate click that ends with a warning changes none of the three
\* output labels and replaces neither self.state1 nor self.state2.
C3_AllOrNothing ==
    [][(last' = "calc" /\ warning' # "")
         => (/\ lbl1' = lbl1 /\ lbl2' = lbl2 /\ lblDelta' = lblDelta
             /\ state1' = state1 /\ state2' = state2)]_vars

\* C4: if any of the four value fields holds text that is not a number, the
\* Calculate click ends with a message in the warning label and setState
\* has been called on neither state.
C4_NonNumericBeforeResolution ==
    (AfterCalc /\ SomeNotNumeric)
        => (warning \in {WarnDup1, WarnDup2, WarnValue} /\ calls = {})

\* C4 witness: State 1 is fine and only a State 2 field is not a number;
\* the click ended with the invalid-value message.
C4_Witness ==
    /\ AfterCalc /\ ~Dup1 /\ ~Dup2
    /\ ~FloatRaises(le[1]) /\ ~FloatRaises(le[2])
    /\ setStateError(PropLetter(cmb[1]), PropLetter(cmb[2]), le[1], le[2], rdoSI) = ""
    /\ FloatRaises(le[4])
    /\ warning = WarnValue
    /\ calls = {}

\* C5: if a value field parses to inf, -inf or nan (and nothing else is
\* wrong with the inputs), the Calculate click ends with the invalid-input
\* message and setState is called on neither state.
C5_NonFiniteRejected ==
    (AfterCalc /\ ~Dup1 /\ ~Dup2 /\ ~SomeNotNumeric /\ SomeNotFinite)
        => (warning = WarnValue /\ calls = {})

\* C6: in every reachable state the unit labels shown with the State 1,
\* State 2 and delta outputs are those of the unit system the radio buttons
\* select.
C6_OutputsInSelectedUnits ==
    /\ lbl1.shown => lbl1.units = UnitsOf(rdoSI)
    /\ lbl2.shown => lbl2.units = UnitsOf(rdoSI)
    /\ lblDelta.shown => lblDelta.units = UnitsOf(rdoSI)

\* C7: after a successful Calculate click, self.state1 and self.state2 are
\* the states resolved from the inputs of that click, the State 1 and
\* State 2 labels show them, and each of the seven deltas is
\* state2.field - state1.field formatted to three decimals.
C7_DeltaCorrect ==
    Succeeded =>
        /\ calls = {1, 2}
        /\ state1 = setState(PropLetter(cmb[1]), PropLetter(cmb[2]), le[1], le[2], rdoSI)
        /\ state2 = setState(PropLetter(cmb[3]), PropLetter(cmb[4]), le[3], le[4], rdoSI)
        /\ \A q \in StateFields :
              /\ lbl1.f[q] = Fmt3(state1.f[q])
              /\ lbl2.f[q] = Fmt3(state2.f[q])
              /\ lblDelta.f[q] = Fmt3(state2.f[q] - state1.f[q])

\* C7 witness: a successful click whose pressure difference is not zero and
\* is not a whole number of thousandths, so the formatting rounds it.
C7_Witness ==
    /\ Succeeded
    /\ state2.f["p"] - state1.f["p"] > 0
    /\ (state2.f["p"] - state1.f["p"]) % Tick3 # 0
    /\ lblDelta.f["p"] # state2.f["p"] - state1.f["p"]

\* What two radio clicks, to the other unit system and back, leave in field i.
ThereAndBack(i) ==
    updatePropertyUnits(cmb[i],
        updatePropertyUnits(cmb[i], le[i], TRUE, ~rdoSI), TRUE, rdoSI)

\* C8: in every reachable state, toggling to the other unit system and back
\* restores the value of every input field that holds a number shown to
\* three decimals.
C8_ToggleRoundTrip ==
    \A i \in Fields :
        (le[i].k = "num" /\ Fmt3(le[i].v) = le[i].v) => ThereAndBack(i) = le[i]

\* The display a successful click produces, as a function of the inputs at
\* the click only: the selections, the four values and the radio buttons.
DisplayFor(c, l, SI) ==
    LET s1 == setState(PropLetter(c[1]), PropLetter(c[2]), l[1], l[2], SI)
        s2 == setState(PropLetter(c[3]), PropLetter(c[4]), l[3], l[4], SI)
    IN  [one |-> [shown |-> TRUE, color |-> region_colors(s1.region),
                  region |-> s1.region,
                  f |-> [q \in StateFields |-> Fmt3(s1.f[q])],
                  units |-> UnitsOf(SI)],
         two |-> [shown |-> TRUE, color |-> region_colors(s2.region),
                  region |-> s2.region,
                  f |-> [q \in StateFields |-> Fmt3(s2.f[q])],
                  units |-> UnitsOf(SI)],
         delta |-> [q \in StateFields |-> Fmt3(s2.f[q] - s1.f[q])]]

\* C9: the results displayed after a successful Calculate click are a
\* function of the inputs at that click (selections, values, unit system)
\* and of nothing earlier: both stored states are newly resolved from them.
C9_NoCaching ==
    Succeeded =>
        LET d == DisplayFor(cmb, le, rdoSI)
        IN  /\ lbl1 = d.one
            /\ lbl2 = d.two
            /\ lblDelta.f = d.delta
            /\ lblDelta.units = UnitsOf(rdoSI)

\* C9 witness: a successful click that is not the first Calculate click of
\* the session.
C9_Witness ==
    /\ Succeeded
    /\ clicks >= 2
    /\ lbl1.f["p"] # lbl2.f["p"]

\* C10 as stated: a setUnits call that does not change the unit system
\* leaves the number held in every input field unchanged.
C10_SameUnitsKeepsValue ==
    [][(last' \in {"select", "radio"} /\ currentUnits' = currentUnits)
         => \A i \in Fields : le[i].k = "num" => le'[i] = le[i]]_vars

\* C10 amended: a setUnits call that does not change the unit system
\* applies no conversion: it rewrites every field as its value (0.0 when
\* the text is not a number) formatted to three decimals, so a field
\* already holding a three-decimal number is unchanged.  A call that does
\* change the unit system converts every field exactly once with the
\* conversion of the property its selector shows after the gesture, and
\* formats it to three decimals; a Quality field is only reformatted.
C10_ConvertedOnlyOnChange ==
    [][last' \in {"select", "radio"}
         => \A i \in Fields :
              LET val == ParsedOrZero(le[i])
              IN  /\ currentUnits' = currentUnits
                        => /\ le'[i] = Fmt3Val(AsRat(val))
                           /\ (le[i].k = "num" /\ Fmt3(le[i].v) = le[i].v)
                                 => le'[i] = le[i]
                  /\ currentUnits' # currentUnits
                        => le'[i] = Fmt3Val(ConvertedVal(cmb'[i], val, TRUE, rdoSI'))
                  /\ cmb'[i] = "Quality (x)" => le'[i] = Fmt3Val(AsRat(val))]_vars

\* C10 witness: after a radio click that changed SI to English, the
\* pressure field that held 1.000 bar holds 14.504 psi.
C10_Witness ==
    /\ last = "radio"
    /\ currentUnits = "EN"
    /\ cmb[1] = "Pressure (p)"
    /\ le[1] = Num(14 * Scale + 504 * Tick3)

====
